---- MODULE Spec2Model ----
(***************************************************************************)
(* Model of the astro-template repository: the build configuration module  *)
(* astro.config.mjs, and the documented conventions of the agent           *)
(* guidelines (SCSS layout and breakpoint mixins, the API endpoint         *)
(* example, the filter store example).                                     *)
(*                                                                         *)
(* Paths are POSIX paths, kept as sequences of segments.  JavaScript       *)
(* values that may be undefined or null are records [t, v].                *)
(***************************************************************************)
EXTENDS Integers, Sequences, FiniteSets, TLC

VARIABLES
    projectRoot,   \* directory that holds astro.config.mjs (absolute, segments)
    cwd,           \* process working directory (absolute, segments)
    env,           \* process.env.NODE_ENV
    fs,            \* project files, paths relative to projectRoot
    firstEval,     \* first evaluation of the configuration module, or NoEval
    lastEval,      \* latest evaluation of the configuration module, or NoEval
    compiled,      \* latest stylesheet compilation by the build tool, or NoCompile
    items,         \* the content collection behind the API endpoint
    request,       \* latest request to the endpoint, or NoRequest
    response,      \* latest response of the endpoint, or NoResponse
    stores,        \* filter stores made by createFilterStore, in creation order
    lastSet,       \* per store and type: the values of the latest setFilter call
    viewport,      \* viewport width in px
    matched        \* breakpoint mixins whose media query matches the viewport

vars == <<projectRoot, cwd, env, fs, firstEval, lastEval, compiled,
          items, request, response, stores, lastSet, viewport, matched>>

configVars == <<projectRoot, cwd, env, fs, firstEval, lastEval, compiled>>
apiVars    == <<items, request, response>>
storeVars  == <<stores, lastSet>>
mediaVars  == <<viewport, matched>>

(***************************************************************************)
(* Paths and file URLs (node:path, node:url)                               *)
(***************************************************************************)

\* Directories a checkout of the template may live in.
Roots == { <<"home", "dev", "site">>, <<"home", "my site">> }

\* Working directories the build may be started from.
Cwds == { <<"home", "dev", "site">>, <<"tmp">> }

Envs == { "development", "production" }

\* Query strings the loader appends to the module URL (cache busting).
Searches == { "", "?t=1" }

\* encodeURI-style escaping of one path segment, as pathToFileURL does.
PercentEncode(seg) ==
    CASE seg = "my site" -> "my%20site"
      [] seg = "100%"    -> "100%25"
      [] OTHER           -> seg

\* decodeURIComponent of one path segment.
decodeURIComponent(seg) ==
    CASE seg = "my%20site" -> "my site"
      [] seg = "100%25"    -> "100%"
      [] OTHER             -> seg

\* The URL under which the runtime loads the file at absolute path p.
pathToFileURL(p, search) ==
    [ protocol |-> "file:",
      pathname |-> [i \in 1..Len(p) |-> PercentEncode(p[i])],
      search   |-> search ]

\* import.meta.url of the configuration module when loaded from root.
ImportMetaUrl(root, search) ==
    pathToFileURL(Append(root, "astro.config.mjs"), search)

TypeError == [ abs |-> FALSE, segs |-> <<"TypeError">>, error |-> TRUE ]

\* url.fileURLToPath: file: URLs only; the pathname is percent-decoded and
\* query and fragment are dropped.
fileURLToPath(url) ==
    IF url.protocol # "file:"
    THEN TypeError
    ELSE [ abs   |-> TRUE,
           segs  |-> [i \in 1..Len(url.pathname) |-> decodeURIComponent(url.pathname[i])],
           error |-> FALSE ]

\* path.dirname
path_dirname(p) ==
    IF p.error THEN p
    ELSE [ p EXCEPT !.segs = IF Len(p.segs) = 0 THEN <<>> ELSE SubSeq(p.segs, 1, Len(p.segs) - 1) ]

RECURSIVE NormalizeFrom(_, _)
\* Resolution of "." and ".." segments, left to right.
NormalizeFrom(segs, acc) ==
    IF segs = <<>> THEN acc
    ELSE LET h == Head(segs) IN
         NormalizeFrom(Tail(segs),
            IF h = "." \/ h = "" THEN acc
            ELSE IF h = ".."
                 THEN (IF acc = <<>> THEN acc ELSE SubSeq(acc, 1, Len(acc) - 1))
                 ELSE Append(acc, h))

RECURSIVE ResolveFrom(_, _, _, _)
\* path.resolve walks its arguments right to left until an absolute one is
\* met; with none, the working directory is prepended.
ResolveFrom(wd, args, i, acc) ==
    IF i = 0 THEN wd \o acc
    ELSE IF args[i].abs THEN args[i].segs \o acc
    ELSE ResolveFrom(wd, args, i - 1, args[i].segs \o acc)

\* path.resolve(...args) in a process whose working directory is wd.
path_resolve(wd, args) ==
    IF \E i \in 1..Len(args) : args[i].error
    THEN TypeError
    ELSE [ abs   |-> TRUE,
           segs  |-> NormalizeFrom(ResolveFrom(wd, args, Len(args), <<>>), <<>>),
           error |-> FALSE ]

\* The relative path literal 'src/styles'.
SrcStyles == [ abs |-> FALSE, segs |-> <<"src", "styles">>, error |-> FALSE ]

(***************************************************************************)
(* astro.config.mjs                                                        *)
(***************************************************************************)

\* The integration object the @astrojs/svelte factory returns.
svelte == [ name |-> "@astrojs/svelte" ]

\* astro/config defineConfig returns the object it is given.
defineConfig(config) == config

NoConfig == [ none |-> TRUE ]

\* An integrations list without the framework plugin.
integrations_none == << >>

\* integrations: [svelte()]
integrations == << svelte >>

\* __dirname taken from the URL's pathname as it stands, still escaped.
dirname_pathname(url) ==
    [ abs   |-> TRUE,
      segs  |-> SubSeq(url.pathname, 1, Len(url.pathname) - 1),
      error |-> FALSE ]

\* const __dirname = path.dirname(fileURLToPath(import.meta.url))
dirname(url) == path_dirname(fileURLToPath(url))

\* scss options whose load path is resolved against the working directory.
scss_cwd(url, wd) ==
    [ api            |-> "modern-compiler",
      loadPaths      |-> << path_resolve(wd, << SrcStyles >>) >>,
      additionalData |-> "@use \"utils\" as *;" ]

\* vite.css.preprocessorOptions.scss
scss(url, wd) ==
    [ api            |-> "modern-compiler",
      loadPaths      |-> << path_resolve(wd, << dirname(url), SrcStyles >>) >>,
      additionalData |-> "@use \"utils\" as *;" ]

\* The files of the styles directory, src/styles.
StylesDir == <<"src", "styles">>

IsPrefix(p, q) == Len(p) <= Len(q) /\ SubSeq(q, 1, Len(p)) = p

StylesDirExists(files) == { f \in files : IsPrefix(StylesDir, f) } # {}

\* A module body that refuses to load without the styles directory.
ConfigModule_checked(url, wd, environment, files) ==
    IF dirname(url).error \/ ~StylesDirExists(files)
    THEN [ threw |-> TRUE, config |-> NoConfig ]
    ELSE [ threw  |-> FALSE,
           config |-> defineConfig(
             [ integrations |-> integrations,
               vite |-> [ css |-> [ preprocessorOptions |-> [ scss |-> scss(url, wd) ] ] ] ]) ]

\* Evaluation of the module body.  url is import.meta.url; wd, environment
\* and files are the process working directory, process.env and the file
\* system, all of which a module body is able to read.
ConfigModule(url, wd, environment, files) ==
    IF dirname(url).error
    THEN [ threw |-> TRUE, config |-> NoConfig ]
    ELSE [ threw  |-> FALSE,
           config |-> defineConfig(
             [ integrations |-> integrations,
               vite |-> [ css |-> [ preprocessorOptions |-> [ scss |-> scss(url, wd) ] ] ] ]) ]

(***************************************************************************)
(* The project's style files and the build tool's resolution of @use       *)
(***************************************************************************)

\* styles/ of the documented project structure.
DocumentedStructure ==
    { <<"src", "styles", "global", "_variables.scss">>,
      <<"src", "styles", "global", "_breakpoints.scss">>,
      <<"src", "styles", "global", "_typography.scss">>,
      <<"src", "styles", "global", "_base.scss">> }

\* Style files a project may hold besides the documented ones.
OptionalFiles ==
    { <<"src", "styles", "_utils.scss">>,
      <<"src", "styles", "utils", "_index.scss">> }

\* Directories of the components and layouts whose stylesheets are compiled.
StylesheetDirs == { <<"src", "layouts">>, <<"src", "components", "ui">> }

\* Whether a utils module lies somewhere under the styles directory.
UtilsExists(files) == files \cap OptionalFiles # {}

\* The module a use-statement names.
UseTarget(statement) ==
    CASE statement = "@use \"utils\" as *;" -> "utils"
      [] OTHER                               -> "?"

\* File names Sass tries for a module name, and for a directory index.
ModuleFileNames(name) ==
    CASE name = "utils" -> { "utils.scss", "_utils.scss", "utils.sass",
                             "_utils.sass", "utils.css", "_utils.css" }
      [] OTHER          -> {}

IndexFileNames ==
    { "index.scss", "_index.scss", "index.sass", "_index.sass",
      "index.css", "_index.css" }

NotFound  == [ ok |-> FALSE, file |-> <<>>, why |-> "not found" ]
Ambiguous == [ ok |-> FALSE, file |-> <<>>, why |-> "ambiguous" ]

\* Sass looks in one directory: the module files first, then the index
\* files of a directory of that name; several matches are an error.
ResolveIn(files, dir, name) ==
    LET direct == { Append(dir, n) : n \in ModuleFileNames(name) } \cap files
        index  == { dir \o <<name, n>> : n \in IndexFileNames } \cap files
        hits   == IF direct # {} THEN direct ELSE index
    IN  IF hits = {} THEN NotFound
        ELSE IF Cardinality(hits) > 1 THEN Ambiguous
        ELSE [ ok |-> TRUE, file |-> CHOOSE f \in hits : TRUE, why |-> "" ]

RECURSIVE ResolveInLoadPaths(_, _, _, _)
ResolveInLoadPaths(files, loadPaths, i, name) ==
    IF i > Len(loadPaths) THEN NotFound
    ELSE LET r == ResolveIn(files, loadPaths[i].segs, name) IN
         IF r = NotFound THEN ResolveInLoadPaths(files, loadPaths, i + 1, name)
         ELSE r

\* Resolution of `@use name` in a stylesheet of directory fromDir: relative
\* to the stylesheet first, then in each load path in order.
SassResolveUse(files, fromDir, loadPaths, name) ==
    LET rel == ResolveIn(files, fromDir, name) IN
    IF rel # NotFound THEN rel
    ELSE ResolveInLoadPaths(files, loadPaths, 1, name)

\* Compilation of a stylesheet of directory dir (relative to root) under the
\* scss options: additionalData is prepended and its use-statement resolved.
CompileScss(root, files, dir, options) ==
    SassResolveUse({ root \o f : f \in files }, root \o dir,
                   options.loadPaths, UseTarget(options.additionalData))

(***************************************************************************)
(* State machine of the configuration and the build                        *)
(***************************************************************************)

NoEval    == [ none |-> TRUE ]
NoCompile == [ none |-> TRUE ]

ScssOptions(config) == config.vite.css.preprocessorOptions.scss

ConfigInit ==
    /\ projectRoot \in Roots
    /\ cwd \in Cwds
    /\ env = "development"
    /\ fs = DocumentedStructure
    /\ firstEval = NoEval
    /\ lastEval = NoEval
    /\ compiled = NoCompile

\* The loader imports astro.config.mjs.
Evaluate ==
    \E search \in Searches :
      LET rec == [ search     |-> search,
                   cwd        |-> cwd,
                   env        |-> env,
                   styles     |-> IF UtilsExists(fs) THEN "utils"
                                  ELSE IF StylesDirExists(fs) THEN "partials"
                                  ELSE "none",
                   out        |-> ConfigModule(ImportMetaUrl(projectRoot, search), cwd, env, fs) ]
      IN  /\ lastEval' = rec
          /\ firstEval' = IF firstEval = NoEval THEN rec ELSE firstEval
          /\ UNCHANGED <<projectRoot, cwd, env, fs, compiled, apiVars, storeVars, mediaVars>>

\* The build tool compiles a stylesheet under the latest configuration.
Compile ==
    /\ lastEval # NoEval
    /\ ~lastEval.out.threw
    /\ \E dir \in StylesheetDirs :
         compiled' = [ from       |-> dir,
                       documented |-> (fs = DocumentedStructure),
                       stylesDir  |-> StylesDirExists(fs),
                       utils      |-> UtilsExists(fs),
                       loadPaths  |-> ScssOptions(lastEval.out.config).loadPaths,
                       result     |-> CompileScss(projectRoot, fs, dir,
                                                  ScssOptions(lastEval.out.config)) ]
    /\ UNCHANGED <<projectRoot, cwd, env, fs, firstEval, lastEval, apiVars, storeVars, mediaVars>>

Chdir ==
    /\ \E d \in Cwds \ {cwd} : cwd' = d
    /\ UNCHANGED <<projectRoot, env, fs, firstEval, lastEval, compiled, apiVars, storeVars, mediaVars>>

SetEnv ==
    /\ \E e \in Envs \ {env} : env' = e
    /\ UNCHANGED <<projectRoot, cwd, fs, firstEval, lastEval, compiled, apiVars, storeVars, mediaVars>>

AddFile ==
    /\ \E f \in OptionalFiles \ fs : fs' = fs \cup {f}
    /\ UNCHANGED <<projectRoot, cwd, env, firstEval, lastEval, compiled, apiVars, storeVars, mediaVars>>

RemoveFile ==
    /\ \E f \in OptionalFiles \cap fs : fs' = fs \ {f}
    /\ UNCHANGED <<projectRoot, cwd, env, firstEval, lastEval, compiled, apiVars, storeVars, mediaVars>>

RemoveStylesDir ==
    /\ StylesDirExists(fs)
    /\ fs' = { f \in fs : ~IsPrefix(StylesDir, f) }
    /\ UNCHANGED <<projectRoot, cwd, env, firstEval, lastEval, compiled, apiVars, storeVars, mediaVars>>

RestoreDocumented ==
    /\ ~(DocumentedStructure \subseteq fs)
    /\ fs' = fs \cup DocumentedStructure
    /\ UNCHANGED <<projectRoot, cwd, env, firstEval, lastEval, compiled, apiVars, storeVars, mediaVars>>

ConfigNext ==
    \/ Evaluate
    \/ Compile
    \/ Chdir
    \/ SetEnv
    \/ AddFile
    \/ RemoveFile
    \/ RemoveStylesDir
    \/ RestoreDocumented


(***************************************************************************)
(* The API endpoint of the guidelines (src/pages/api/*.json.ts)            *)
(***************************************************************************)

MaxItems  == 2
MaxParams == 2

Undefined == [ t |-> "undefined", v |-> "" ]
Null      == [ t |-> "null", v |-> "" ]
Str(s)    == [ t |-> "string", v |-> s ]

\* Values of data.category in the collection.
Categories == { Undefined, Str(""), Str("news"), Str("events") }

\* Keys and values of the query string.
ParamKeys   == { "category", "page" }
ParamValues == { "", "news", "events" }

SeqsUpTo(S, n) == UNION { [1..k -> S] : k \in 0..n }

\* Collections: entry i has id i and a category.
Collections ==
    { [i \in 1..Len(cs) |-> [ id |-> i, data |-> [ category |-> cs[i] ] ]] :
        cs \in SeqsUpTo(Categories, MaxItems) }

\* Query strings: key/value pairs in URL order.
SearchParams == SeqsUpTo(ParamKeys \X ParamValues, MaxParams)

RECURSIVE FirstValue(_, _, _)
FirstValue(params, name, i) ==
    IF i > Len(params) THEN Null
    ELSE IF params[i][1] = name THEN Str(params[i][2])
    ELSE FirstValue(params, name, i + 1)

\* URLSearchParams.get: the first value of the name, or null.
searchParams_get(params, name) == FirstValue(params, name, 1)

\* JavaScript truthiness of null and strings.
Truthy(x) == x.t = "string" /\ x.v # ""

\* The === operator.
StrictEquals(a, b) == a.t = b.t /\ a.v = b.v

\* JSON.stringify of the collection entries: a property whose value is
\* undefined is left out of its object.
JSON_stringify(arr) ==
    [ i \in 1..Len(arr) |->
        [ id   |-> arr[i].id,
          data |-> IF arr[i].data.category.t = "undefined"
                   THEN {}
                   ELSE { <<"category", arr[i].data.category.v>> } ] ]

\* A handler that filters whenever the parameter is present, empty or not.
GET_whenPresent(params, collection) ==
    LET category == searchParams_get(params, "category")
        Keep(i)  == StrictEquals(i.data.category, category)
        filtered == IF category # Null
                    THEN SelectSeq(collection, Keep)
                    ELSE collection
    IN  [ status |-> 200, body |-> JSON_stringify(filtered) ]

\* The GET handler.
GET(params, collection) ==
    LET category == searchParams_get(params, "category")
        Keep(i)  == StrictEquals(i.data.category, category)
        filtered == IF Truthy(category)
                    THEN SelectSeq(collection, Keep)
                    ELSE collection
    IN  [ status |-> 200, body |-> JSON_stringify(filtered) ]

NoRequest  == << <<"none", "none">>, <<"none", "none">>, <<"none", "none">> >>
NoResponse == [ status |-> 0, body |-> <<>> ]

ApiInit ==
    /\ items \in Collections
    /\ request = NoRequest
    /\ response = NoResponse

\* A client requests the endpoint with a query string.
Get ==
    \E params \in SearchParams :
      /\ request' = params
      /\ response' = GET(params, items)
      /\ UNCHANGED <<items, configVars, storeVars, mediaVars>>

ApiNext == Get

(***************************************************************************)
(* The filter store of the guidelines (filterStore.svelte.ts)              *)
(***************************************************************************)

MaxStores == 2

\* Property names setFilter is called with.
Types == { "city", "category", "tag" }

\* Arrays setFilter is called with.
ValueLists == { <<>>, <<"oslo">>, <<"rome", "oslo">> }

Arr(a)   == [ t |-> "array", v |-> a ]
Missing  == [ t |-> "undefined", v |-> <<>> ]
NeverSet == [ t |-> "never", v |-> <<>> ]

\* $state({ city: [], category: [] })
InitialFilters ==
    [ ty \in Types |-> IF ty \in { "city", "category" } THEN Arr(<<>>) ELSE Missing ]

\* createFilterStore(): a store with a filters object of its own.
createFilterStore == [ filters |-> InitialFilters ]

\* The filters getter.
get_filters(store) == store.filters

\* A setFilter that replaces the whole filters object: filters = { [type]: values }
setFilter_replace(store, type, values) ==
    [ store EXCEPT !.filters = [ ty \in Types |-> IF ty = type THEN Arr(values) ELSE Missing ] ]

\* setFilter(type, values): filters[type] = values
setFilter(store, type, values) ==
    [ store EXCEPT !.filters = [ store.filters EXCEPT ![type] = Arr(values) ] ]

StoreInit ==
    /\ stores = <<>>
    /\ lastSet = <<>>

CreateStore ==
    /\ Len(stores) < MaxStores
    /\ stores' = Append(stores, createFilterStore)
    /\ lastSet' = Append(lastSet, [ ty \in Types |-> NeverSet ])
    /\ UNCHANGED <<configVars, apiVars, mediaVars>>

SetFilter ==
    \E s \in 1..Len(stores), ty \in Types, values \in ValueLists :
      /\ stores' = [ stores EXCEPT ![s] = setFilter(stores[s], ty, values) ]
      /\ lastSet' = [ lastSet EXCEPT ![s][ty] = Arr(values) ]
      /\ UNCHANGED <<configVars, apiVars, mediaVars>>

StoreNext ==
    \/ CreateStore
    \/ SetFilter

(***************************************************************************)
(* The breakpoint mixins of the guidelines                                 *)
(***************************************************************************)

MaxWidth == 1500

MobileMax          == 768
TabletMin          == 768
TabletMax          == 1100
TabletOrSmallerMax == 1100
DesktopMin         == 1101

\* Whether the media query of a mixin matches a viewport of width w.
mobile(w)            == w <= MobileMax
tablet(w)            == TabletMin <= w /\ w <= TabletMax
tablet_or_smaller(w) == w <= TabletOrSmallerMax
desktop(w)           == w >= DesktopMin

\* The mixins whose rules apply at width w.
MatchedMixins(w) ==
    { m \in { "mobile", "tablet", "tablet-or-smaller", "desktop" } :
        CASE m = "mobile"            -> mobile(w)
          [] m = "tablet"            -> tablet(w)
          [] m = "tablet-or-smaller" -> tablet_or_smaller(w)
          [] OTHER                   -> desktop(w) }

\* The browser window of the guidelines' screenshot command is 1440 wide.
MediaInit ==
    /\ viewport = 1440
    /\ matched = MatchedMixins(viewport)

Resize ==
    \E w \in 0..MaxWidth :
      /\ w # viewport
      /\ viewport' = w
      /\ matched' = MatchedMixins(w)
      /\ UNCHANGED <<configVars, apiVars, storeVars>>

MediaNext == Resize

(***************************************************************************)
(* Specifications                                                          *)
(***************************************************************************)

ConfigIdle ==
    /\ projectRoot = <<"home", "dev", "site">>
    /\ cwd = projectRoot
    /\ env = "development"
    /\ fs = DocumentedStructure
    /\ firstEval = NoEval
    /\ lastEval = NoEval
    /\ compiled = NoCompile

ApiIdle ==
    /\ items = <<>>
    /\ request = NoRequest
    /\ response = NoResponse

InitConfig == ConfigInit /\ ApiIdle /\ StoreInit /\ MediaInit
InitApi    == ConfigIdle /\ ApiInit /\ StoreInit /\ MediaInit
InitStore  == ConfigIdle /\ ApiIdle /\ StoreInit /\ MediaInit
InitMedia  == ConfigIdle /\ ApiIdle /\ StoreInit /\ MediaInit

\* The configuration and the build.
SpecConfig == InitConfig /\ [][ConfigNext]_vars

\* The API endpoint.
SpecApi == InitApi /\ [][ApiNext]_vars

\* The filter stores.
SpecStore == InitStore /\ [][StoreNext]_vars

\* The viewport and the breakpoint mixins.
SpecMedia == InitMedia /\ [][MediaNext]_vars

Init == ConfigInit /\ ApiInit /\ StoreInit /\ MediaInit

Next ==
    \/ ConfigNext
    \/ ApiNext
    \/ StoreNext
    \/ MediaNext

\* The whole repository; each part is checked under its own specification.
Spec == Init /\ [][Next]_vars

(***************************************************************************)
(* Properties of the configuration                                         *)
(***************************************************************************)

Evaluated == lastEval # NoEval

\* The load path the configuration of a checkout at root is to declare.
ExpectedLoadPath(root) ==
    [ abs |-> TRUE, segs |-> root \o <<"src", "styles">>, error |-> FALSE ]

\* C1: every evaluation of the configuration module succeeds with an
\* integrations list of exactly one entry, the Svelte integration.
C1_IntegrationsIsSvelte ==
    Evaluated =>
        /\ ~lastEval.out.threw
        /\ Len(lastEval.out.config.integrations) = 1
        /\ lastEval.out.config.integrations[1].name = "@astrojs/svelte"

C1_Witness ==
    /\ Evaluated
    /\ ~lastEval.out.threw
    /\ Len(lastEval.out.config.integrations) = 1

\* C2: the scss options hold exactly api, loadPaths and additionalData: the
\* modern-compiler API, the one absolute load path <directory of the
\* configuration file>/src/styles, and the statement @use "utils" as *;
C2_ScssOptions ==
    Evaluated =>
        /\ ~lastEval.out.threw
        /\ LET o == ScssOptions(lastEval.out.config) IN
             /\ DOMAIN o = { "api", "loadPaths", "additionalData" }
             /\ o.api = "modern-compiler"
             /\ Len(o.loadPaths) = 1
             /\ o.loadPaths[1].abs
             /\ o.loadPaths[1] = ExpectedLoadPath(projectRoot)
             /\ o.additionalData = "@use \"utils\" as *;"

C2_Witness ==
    /\ Evaluated
    /\ projectRoot = <<"home", "my site">>
    /\ lastEval.cwd # projectRoot
    /\ lastEval.search # ""
    /\ ScssOptions(lastEval.out.config).loadPaths[1].segs = <<"home", "my site", "src", "styles">>

\* C3: in a project laid out as the documented structure, the injected
\* use-statement of every compiled stylesheet resolves to a module under
\* the declared load path src/styles.
C3_UtilsResolvesInDocumentedLayout ==
    (compiled # NoCompile /\ compiled.documented) =>
        /\ compiled.result.ok
        /\ IsPrefix(projectRoot \o StylesDir, compiled.result.file)

\* C4: whatever the working directory, the environment, the loader's query
\* string and the files present, every evaluation yields the same result as
\* the first evaluation at that location.
C4_SameConfigEveryEvaluation ==
    Evaluated =>
        /\ lastEval.out = firstEval.out
        /\ ~lastEval.out.threw

C4_Witness ==
    /\ Evaluated
    /\ lastEval.cwd # firstEval.cwd
    /\ lastEval.env # firstEval.env
    /\ lastEval.search # firstEval.search
    /\ lastEval.styles # firstEval.styles
    /\ lastEval.out = firstEval.out

\* C5: an evaluation made while src/styles or the utils module is missing
\* raises no error and declares the same load path and use-statement; the
\* failure shows only when the build tool compiles a stylesheet.
C5_MissingPathsFailOnlyInBuild ==
    /\ (Evaluated /\ lastEval.styles # "utils") =>
          /\ ~lastEval.out.threw
          /\ ScssOptions(lastEval.out.config).loadPaths = << ExpectedLoadPath(projectRoot) >>
          /\ UseTarget(ScssOptions(lastEval.out.config).additionalData) = "utils"
    /\ (compiled # NoCompile /\ ~compiled.utils) => ~compiled.result.ok

C5_Witness ==
    /\ Evaluated
    /\ lastEval.styles = "none"
    /\ firstEval.styles = "utils"
    /\ ~lastEval.out.threw
    /\ compiled # NoCompile
    /\ ~compiled.stylesDir
    /\ ~compiled.result.ok


(***************************************************************************)
(* Properties of the API endpoint                                          *)
(***************************************************************************)

Requested == request # NoRequest

\* Positions of the category parameter in the latest request.
CategoryAt == { i \in 1..Len(request) : request[i][1] = "category" }

\* The value of the first category parameter of the latest request.
CategoryValue == request[CHOOSE i \in CategoryAt : \A j \in CategoryAt : i <= j][2]

\* The entries of the collection whose data.category is the string v.
ItemsOfCategory(v) ==
    LET Is(i) == i.data.category = Str(v) IN SelectSeq(items, Is)

\* C6 as stated: whenever the URL has a category parameter, whatever its
\* value, the response holds exactly the entries of that category, in their
\* order; without the parameter it holds every entry.
C6_FilterForEveryValue ==
    Requested =>
        /\ response.status = 200
        /\ response.body = IF CategoryAt # {}
                           THEN JSON_stringify(ItemsOfCategory(CategoryValue))
                           ELSE JSON_stringify(items)

\* C6 amended: a non-empty category value selects exactly the entries of
\* that category, in their order; without the parameter, or with an empty
\* value, the response holds every entry.
C6_FilterForNonEmptyValue ==
    Requested =>
        /\ response.status = 200
        /\ response.body = IF CategoryAt # {} /\ CategoryValue # ""
                           THEN JSON_stringify(ItemsOfCategory(CategoryValue))
                           ELSE JSON_stringify(items)

C6_Witness ==
    /\ Requested
    /\ Len(items) = 2
    /\ items[1].data.category = Str("events")
    /\ items[2].data.category = Str("news")
    /\ CategoryAt # {}
    /\ CategoryValue = "news"
    /\ Len(response.body) = 1
    /\ response.body[1].id = 2

(***************************************************************************)
(* Properties of the filter store                                          *)
(***************************************************************************)

\* C7: in every store, the filters getter shows for each type the values of
\* the latest setFilter on that store and type, and the initial value (the
\* empty list for city and category) where there was none: calls on other
\* types and on other stores leave it as it was.
C7_FiltersAreLatestSet ==
    \A s \in 1..Len(stores) : \A ty \in Types :
        get_filters(stores[s])[ty] =
            IF lastSet[s][ty] # NeverSet THEN lastSet[s][ty]
            ELSE IF ty \in { "city", "category" } THEN Arr(<<>>)
            ELSE Missing

C7_Witness ==
    /\ Len(stores) = 2
    /\ lastSet[1]["city"] = Arr(<<"rome", "oslo">>)
    /\ lastSet[1]["category"] = Arr(<<"oslo">>)
    /\ lastSet[2]["city"] = NeverSet
    /\ lastSet[2]["tag"] = Arr(<<"oslo">>)
    /\ get_filters(stores[1])["city"] = Arr(<<"rome", "oslo">>)
    /\ get_filters(stores[2])["city"] = Arr(<<>>)

(***************************************************************************)
(* Properties of the breakpoint mixins                                     *)
(***************************************************************************)

\* C8: at every width, tablet-or-smaller matches exactly when mobile or
\* tablet does, desktop matches exactly when tablet-or-smaller does not,
\* and mobile and tablet never both match.
C8_BreakpointsPartitionWidths ==
    /\ ("tablet-or-smaller" \in matched) <=> ("mobile" \in matched \/ "tablet" \in matched)
    /\ ("desktop" \in matched) <=> ("tablet-or-smaller" \notin matched)
    /\ ~("mobile" \in matched /\ "tablet" \in matched)


====
